---- MODULE Spec2Model ----
(***************************************************************************)
(* I2C serial decoder for HP 16700 logic analyzers (src/i2c-tdk.c).        *)
(*                                                                         *)
(* The decoder is the struct `decoder` driven by handleState, which is     *)
(* called by execute once per sample of the captured trace.  The module    *)
(* holds three specifications over the same handler:                       *)
(*   Spec    handleState called with every sample in every decoder state   *)
(*           reachable from newDecoder; the records the call writes to     *)
(*           its eventDs, dataDs and io arguments are evt, dat and diag.   *)
(*   SpecRT  execute's loop over a write-transaction trace, with the       *)
(*           output data sets accumulating what each call wrote.           *)
(*   SpecExec  execute from its first statement: the allocation in         *)
(*           newDecoder, which may fail, then the loop over a trace.       *)
(***************************************************************************)
EXTENDS Integers, Sequences, FiniteSets, TLC

VARIABLES
    d,          \* the decoder: [state, scl, sda, pos, byteBuffer]
    evt,        \* records the latest handleState call wrote to eventDs/i2cEventsLE
    dat,        \* records the latest handleState call wrote to dataDs/i2cLE
    diag,       \* what the latest handleState call printed on io
    smp,        \* the sample (scl, sda, time) passed to the latest call
    prev,       \* d->state, d->scl, d->sda as they were when the latest call began
    addrBits,   \* history: bits sampled since the latest start condition
    dataBits,   \* history: bits sampled since READ_DATA was entered from READ_ACK
    ds,         \* execute: the captured trace, [rows, position]
    eventDs,    \* execute: rows written to the I2CEvents data set
    dataDs,     \* execute: rows written to the I2CData data set
    ex,         \* execute: where control is, what malloc returned, what was printed
    hist        \* history: the latest event label, the latest start/stop label

vars == <<d, evt, dat, diag, smp, prev, addrBits, dataBits, ds, eventDs, dataDs,
          ex, hist>>

-----------------------------------------------------------------------------
(* enum conditions *)
IDLE      == "IDLE"
READ_ADDR == "READ_ADDR"
READ_RW   == "READ_RW"
READ_DATA == "READ_DATA"
READ_ACK  == "READ_ACK"
INVALID   == "INVALID"

conditions == {IDLE, READ_ADDR, READ_RW, READ_DATA, READ_ACK, INVALID}

(* uint8_t, the type of scl, sda, pos and byteBuffer in struct decoder *)
UInt8 == 0 .. 255

(* The levels of the one-bit SCL and SDA labels *)
Bit == {0, 1}

(* Timestamps a sample of Spec may carry *)
MaxTime == 1
Times == 0 .. MaxTime

(* Bytes a freshly allocated decoder may hold in the fields newDecoder      *)
(* does not set                                                            *)
MaxUninit == 15
UninitBytes == 0 .. MaxUninit

(* A history that is not running, and one that holds the bits b *)
Off == [on |-> FALSE, bits |-> <<>>]
On(b) == [on |-> TRUE, bits |-> b]

-----------------------------------------------------------------------------
(* Integer arithmetic of the C expressions *)

RECURSIVE Pow2(_)
Pow2(n) == IF n = 0 THEN 1 ELSE 2 * Pow2(n - 1)

(* a | b on non-negative integers *)
RECURSIVE BitOr(_, _)
BitOr(a, b) ==
    IF a = 0 THEN b
    ELSE IF b = 0 THEN a
    ELSE (IF a % 2 = 1 \/ b % 2 = 1 THEN 1 ELSE 0) + 2 * BitOr(a \div 2, b \div 2)

(* x << n for an unsigned int x is defined for 0 <= n < 32 *)
ShiftDefined(n) == n \in 0 .. 31

(* pos is unsigned, so a defined count is at most 7, and x is a level:     *)
(* the product stays below 2^32 and nothing wraps.                         *)
ShiftLeft(x, n) == x * Pow2(n)

(* conversion of an int result to uint8_t *)
ToUInt8(x) == x % 256

-----------------------------------------------------------------------------
(* newDecoder: malloc leaves pos and byteBuffer unset; p and b are the     *)
(* bytes the allocation happens to hold.                                   *)
newDecoder(p, b) ==
    [state |-> IDLE, scl |-> 1, sda |-> 1, pos |-> p, byteBuffer |-> b]

(* The printf of the final else branch: both the "last" and the "new"      *)
(* arguments are d->scl and d->sda.                                        *)
Diagnostic(dec, scl, sda) ==
    << "There's a state here we haven't implemented yet",
       [state |-> dec.state, lastSCL |-> dec.scl, lastSDA |-> dec.sda,
        scl |-> dec.scl, sda |-> dec.sda] >>

(* Accumulate with the bits assembled least significant first *)
AccumulateLSB(dec, sda, top, ub) ==
    ToUInt8(dec.byteBuffer + sda * Pow2(dec.pos))

(* byteBuffer |= sda << (top - pos); ub is the byte left in byteBuffer     *)
(* when the shift count is out of range (undefined behaviour).             *)
Accumulate(dec, sda, top, ub) ==
    IF ShiftDefined(top - dec.pos)
    THEN ToUInt8(BitOr(dec.byteBuffer, ShiftLeft(sda, top - dec.pos)))
    ELSE ub

(* The values ub ranges over for a call *)
UBBytes(dec, scl, sda) ==
    IF /\ (dec.scl # scl \/ dec.sda # sda)
       /\ scl = 1
       /\ \/ dec.state = READ_ADDR /\ ~ShiftDefined(6 - dec.pos)
          \/ dec.state = READ_DATA /\ ~ShiftDefined(7 - dec.pos)
    THEN UInt8
    ELSE {0}

(* A call's result: the decoder after it and the records it wrote.  Quiet  *)
(* is the result of a branch that writes nothing and keeps the phase.      *)
Quiet(dec) == [d |-> dec, evt |-> <<>>, dat |-> <<>>, diag |-> <<>>]

(* NothingChanged with the data comparison inverted *)
NothingChangedTypo(dec, scl, sda) == dec.scl = scl /\ dec.sda # sda

(* if( d->scl == scl && d->sda == sda ) return; *)
NothingChanged(dec, scl, sda) == dec.scl = scl /\ dec.sda = sda

(* Ignore restarting the field in progress *)
IgnoreRestartsField(dec) == [Quiet(dec) EXCEPT !.d.pos = 0, !.d.byteBuffer = 0]

(* "Clock going low; ignore" and "Data changing while clock is low; ignore" *)
Ignore(dec) == Quiet(dec)

(* StartCondition leaving pos as it is *)
StartConditionKeepsPos(dec, time) ==
    [Quiet(dec) EXCEPT
        !.evt = IF dec.state = IDLE
                THEN << <<time, "START">> >>
                ELSE << <<time, "START(odd)">> >>,
        !.d = [dec EXCEPT !.state = READ_ADDR, !.byteBuffer = 0]]

(* StartCondition without the restart tag *)
StartConditionUntagged(dec, time) ==
    [Quiet(dec) EXCEPT
        !.evt = << <<time, "START">> >>,
        !.d = [dec EXCEPT !.state = READ_ADDR, !.pos = 0, !.byteBuffer = 0]]

(* "Look for start condition" *)
StartCondition(dec, time) ==
    [Quiet(dec) EXCEPT
        !.evt = IF dec.state = IDLE
                THEN << <<time, "START">> >>
                ELSE << <<time, "START(odd)">> >>,
        !.d = [dec EXCEPT !.state = READ_ADDR, !.pos = 0, !.byteBuffer = 0]]

(* StopCondition suppressing a stop on the idle bus *)
StopConditionQuietWhenIdle(dec, time) ==
    IF dec.state = IDLE
    THEN Quiet(dec)
    ELSE [Quiet(dec) EXCEPT
            !.evt = << <<time, "STOP">> >>,
            !.d = [dec EXCEPT !.state = IDLE]]

(* "Look for stop condition" *)
StopCondition(dec, time) ==
    [Quiet(dec) EXCEPT
        !.evt = << <<time, "STOP">> >>,
        !.d = [dec EXCEPT !.state = IDLE]]

(* ReadAddress shifting as ReadData does (7 - pos) *)
ReadAddressShift7(dec, sda, time, ub) ==
    LET buf == Accumulate(dec, sda, 7, ub)
        p   == ToUInt8(dec.pos + 1)
    IN  IF p = 7
        THEN [Quiet(dec) EXCEPT
                !.evt = << <<time, "ADDRESS">> >>,
                !.dat = << <<time, buf>> >>,
                !.d = [dec EXCEPT !.state = READ_RW, !.pos = 0,
                                  !.byteBuffer = 0]]
        ELSE [Quiet(dec) EXCEPT
                !.d = [dec EXCEPT !.pos = p, !.byteBuffer = buf]]

(* ReadAddress leaving pos and byteBuffer as they are after the 7th bit *)
ReadAddressNoReset(dec, sda, time, ub) ==
    LET buf == Accumulate(dec, sda, 6, ub)
        p   == ToUInt8(dec.pos + 1)
    IN  IF p = 7
        THEN [Quiet(dec) EXCEPT
                !.evt = << <<time, "ADDRESS">> >>,
                !.dat = << <<time, buf>> >>,
                !.d = [dec EXCEPT !.state = READ_RW, !.pos = p,
                                  !.byteBuffer = buf]]
        ELSE [Quiet(dec) EXCEPT
                !.d = [dec EXCEPT !.pos = p, !.byteBuffer = buf]]

(* "After a start we should read the address" *)
ReadAddress(dec, sda, time, ub) ==
    LET buf == Accumulate(dec, sda, 6, ub)
        p   == ToUInt8(dec.pos + 1)
    IN  IF p = 7
        THEN [Quiet(dec) EXCEPT
                !.evt = << <<time, "ADDRESS">> >>,
                !.dat = << <<time, buf>> >>,
                !.d = [dec EXCEPT !.state = READ_RW, !.pos = 0,
                                  !.byteBuffer = 0]]
        ELSE [Quiet(dec) EXCEPT
                !.d = [dec EXCEPT !.pos = p, !.byteBuffer = buf]]

(* ReadRW with the two labels exchanged *)
ReadRWSwapped(dec, sda, time) ==
    [Quiet(dec) EXCEPT
        !.evt = IF sda = 0 THEN << <<time, "READ">> >>
                           ELSE << <<time, "WRITE">> >>,
        !.d = [dec EXCEPT !.state = READ_ACK]]

(* "Get the R/W bit" *)
ReadRW(dec, sda, time) ==
    [Quiet(dec) EXCEPT
        !.evt = IF sda = 0 THEN << <<time, "WRITE">> >>
                           ELSE << <<time, "READ">> >>,
        !.d = [dec EXCEPT !.state = READ_ACK]]

(* ReadAck that does not go on to READ_DATA *)
ReadAckStays(dec, sda, time) ==
    [Quiet(dec) EXCEPT
        !.evt = IF sda = 0 THEN << <<time, "ACK">> >>
                           ELSE << <<time, "NACK">> >>,
        !.d = [dec EXCEPT !.pos = 0, !.byteBuffer = 0]]

(* "Get the ACK" *)
ReadAck(dec, sda, time) ==
    [Quiet(dec) EXCEPT
        !.evt = IF sda = 0 THEN << <<time, "ACK">> >>
                           ELSE << <<time, "NACK">> >>,
        !.d = [dec EXCEPT !.state = READ_DATA, !.pos = 0, !.byteBuffer = 0]]

(* ReadData writing the byte without the DATA event *)
ReadDataNoEvent(dec, sda, time, ub) ==
    LET buf == Accumulate(dec, sda, 7, ub)
        p   == ToUInt8(dec.pos + 1)
    IN  IF p = 8
        THEN [Quiet(dec) EXCEPT
                !.dat = << <<time, buf>> >>,
                !.d = [dec EXCEPT !.pos = 0, !.byteBuffer = 0,
                                  !.state = READ_ACK]]
        ELSE [Quiet(dec) EXCEPT
                !.d = [dec EXCEPT !.pos = p, !.byteBuffer = buf]]

(* ReadData ending the byte after seven bits *)
ReadDataSevenBits(dec, sda, time, ub) ==
    LET buf == Accumulate(dec, sda, 7, ub)
        p   == ToUInt8(dec.pos + 1)
    IN  IF p = 7
        THEN [Quiet(dec) EXCEPT
                !.dat = << <<time, buf>> >>,
                !.evt = << <<time, "DATA">> >>,
                !.d = [dec EXCEPT !.pos = 0, !.byteBuffer = 0,
                                  !.state = READ_ACK]]
        ELSE [Quiet(dec) EXCEPT
                !.d = [dec EXCEPT !.pos = p, !.byteBuffer = buf]]

(* "Read a byte of data" *)
ReadData(dec, sda, time, ub) ==
    LET buf == Accumulate(dec, sda, 7, ub)
        p   == ToUInt8(dec.pos + 1)
    IN  IF p = 8
        THEN [Quiet(dec) EXCEPT
                !.dat = << <<time, buf>> >>,
                !.evt = << <<time, "DATA">> >>,
                !.d = [dec EXCEPT !.pos = 0, !.byteBuffer = 0,
                                  !.state = READ_ACK]]
        ELSE [Quiet(dec) EXCEPT
                !.d = [dec EXCEPT !.pos = p, !.byteBuffer = buf]]

(* NotImplemented marking the decoder INVALID *)
NotImplementedInvalid(dec, scl, sda) ==
    [Quiet(dec) EXCEPT !.diag = Diagnostic(dec, scl, sda),
                       !.d.state = INVALID]

(* NotImplemented recovering by restarting the field *)
NotImplementedResets(dec, scl, sda) ==
    [Quiet(dec) EXCEPT !.diag = Diagnostic(dec, scl, sda),
                       !.d.pos = 0, !.d.byteBuffer = 0]

(* The final else: "There's a state here we haven't implemented yet" *)
NotImplemented(dec, scl, sda) ==
    [Quiet(dec) EXCEPT !.diag = Diagnostic(dec, scl, sda)]

(* UpdateLevels that forgets the data line *)
UpdateLevelsClockOnly(r, scl, sda) == [r EXCEPT !.d.scl = scl]

(* d->scl = scl; d->sda = sda; *)
UpdateLevels(r, scl, sda) == [r EXCEPT !.d.scl = scl, !.d.sda = sda]

(* Classify without the test for data changing while the clock is low *)
ClassifyNoLowMask(dec, scl, sda) ==
    IF NothingChanged(dec, scl, sda) THEN "NoChange"
    ELSE IF dec.scl = 1 /\ scl = 0 THEN "ClockFalling"
    ELSE IF dec.scl = 1 /\ dec.sda = 1 /\ scl = 1 /\ sda = 0 THEN "StartCondition"
    ELSE IF dec.scl = 1 /\ dec.sda = 0 /\ scl = 1 /\ sda = 1 THEN "StopCondition"
    ELSE "BitSampleEdge"

(* The tests on the levels at the head of handleState's if / else-if       *)
(* chain, in the order written; "BitSampleEdge" is a sample that passes    *)
(* them all and reaches the tests on d->state.                             *)
Classify(dec, scl, sda) ==
    IF NothingChanged(dec, scl, sda) THEN "NoChange"
    ELSE IF dec.scl = 1 /\ scl = 0 THEN "ClockFalling"
    ELSE IF scl = 0 THEN "ClockLowDataChange"
    ELSE IF dec.scl = 1 /\ dec.sda = 1 /\ scl = 1 /\ sda = 0 THEN "StartCondition"
    ELSE IF dec.scl = 1 /\ dec.sda = 0 /\ scl = 1 /\ sda = 1 THEN "StopCondition"
    ELSE "BitSampleEdge"

(* handleState: the if / else-if chain, then d->scl = scl; d->sda = sda    *)
(* for every branch but the early return.                                  *)
handleState(dec, scl, sda, time, ub) ==
    LET c == Classify(dec, scl, sda)
        branch ==
            IF c = "ClockFalling" THEN
                Ignore(dec)
            ELSE IF c = "ClockLowDataChange" THEN
                Ignore(dec)
            ELSE IF c = "StartCondition" THEN
                StartCondition(dec, time)
            ELSE IF c = "StopCondition" THEN
                StopCondition(dec, time)
            ELSE IF dec.state = READ_ADDR /\ scl = 1 THEN
                ReadAddress(dec, sda, time, ub)
            ELSE IF dec.state = READ_RW /\ scl = 1 THEN
                ReadRW(dec, sda, time)
            ELSE IF dec.state = READ_ACK /\ scl = 1 THEN
                ReadAck(dec, sda, time)
            ELSE IF dec.state = READ_DATA /\ scl = 1 THEN
                ReadData(dec, sda, time, ub)
            ELSE
                NotImplemented(dec, scl, sda)
    IN  IF c = "NoChange"
        THEN Quiet(dec)
        ELSE UpdateLevels(branch, scl, sda)

-----------------------------------------------------------------------------
(* History of the sampled bits, kept beside the decoder for the bit-order  *)
(* properties.  A start condition is data falling under a high clock, a    *)
(* stop condition data rising under a high clock, and a bit is sampled by  *)
(* every other change that leaves the clock high.                          *)
IsStart(p, s) == p.scl = 1 /\ p.sda = 1 /\ s.scl = 1 /\ s.sda = 0
IsStop(p, s)  == p.scl = 1 /\ p.sda = 0 /\ s.scl = 1 /\ s.sda = 1
IsNoChange(p, s) == p.scl = s.scl /\ p.sda = s.sda
IsBitEdge(p, s) ==
    /\ ~IsNoChange(p, s)
    /\ s.scl = 1
    /\ ~IsStart(p, s)
    /\ ~IsStop(p, s)

(* bits since the latest start condition, while fewer than seven *)
NextAddrBits(h, p, s) ==
    IF IsStart(p, s) THEN On(<<>>)
    ELSE IF IsStop(p, s) THEN Off
    ELSE IF IsBitEdge(p, s) /\ h.on
         THEN IF Len(h.bits) = 6 THEN Off ELSE On(Append(h.bits, s.sda))
    ELSE h

(* bits since READ_DATA was entered from READ_ACK, while fewer than eight *)
NextDataBits(h, p, s, from, to) ==
    IF IsStart(p, s) \/ IsStop(p, s) THEN Off
    ELSE IF from = READ_ACK /\ to = READ_DATA THEN On(<<>>)
    ELSE IF IsBitEdge(p, s) /\ h.on
         THEN IF Len(h.bits) = 7 THEN Off ELSE On(Append(h.bits, s.sda))
    ELSE h

(* The labels written so far: the latest one, the latest of START,         *)
(* START(odd) and STOP, and the first one other than STOP; "" while there  *)
(* is none.                                                                *)
NoHist == [lastEvt |-> "", lastSS |-> "", first |-> ""]

RECURSIVE NextHist(_, _)
NextHist(h, rows) ==
    IF rows = <<>> THEN h
    ELSE LET l == Head(rows)[2]
         IN  NextHist([lastEvt |-> l,
                       lastSS |-> IF l \in {"START", "START(odd)", "STOP"}
                                  THEN l ELSE h.lastSS,
                       first |-> IF h.first = "" /\ l # "STOP"
                                 THEN l ELSE h.first],
                      Tail(rows))

(* execute between its statements: the decoder is allocated and the loop   *)
(* is reading samples.                                                     *)
Running == [pc |-> "loop", ptr |-> "block", nullWrite |-> FALSE,
            printed |-> <<>>]

-----------------------------------------------------------------------------
(* One call handleState(d, scl, sda, time, dataDs, eventDs, ...) *)
Call(scl, sda, time) ==
    \E ub \in UBBytes(d, scl, sda) :
        LET r == handleState(d, scl, sda, time, ub)
            p == [state |-> d.state, scl |-> d.scl, sda |-> d.sda]
            s == [called |-> TRUE, scl |-> scl, sda |-> sda, time |-> time]
        IN  /\ d' = r.d
            /\ evt' = r.evt
            /\ dat' = r.dat
            /\ diag' = r.diag
            /\ smp' = s
            /\ prev' = p
            /\ addrBits' = NextAddrBits(addrBits, p, s)
            /\ dataBits' = NextDataBits(dataBits, p, s, d.state, r.d.state)
            /\ hist' = NextHist(hist, r.evt)

Init ==
    /\ \E p \in UninitBytes, b \in UninitBytes : d = newDecoder(p, b)
    /\ evt = <<>>
    /\ dat = <<>>
    /\ diag = <<>>
    /\ smp = [called |-> FALSE, scl |-> 1, sda |-> 1, time |-> 0]
    /\ prev = [state |-> IDLE, scl |-> 1, sda |-> 1]
    /\ addrBits = Off
    /\ dataBits = Off
    /\ ds = [rows |-> <<>>, position |-> 0]
    /\ eventDs = <<>>
    /\ dataDs = <<>>
    /\ ex = Running
    /\ hist = NoHist

(* handleState on any sample *)
Sample ==
    \E scl \in Bit, sda \in Bit, time \in Times :
        /\ Call(scl, sda, time)
        /\ UNCHANGED <<ds, eventDs, dataDs, ex>>

Next == Sample

Spec == Init /\ [][Next]_vars

-----------------------------------------------------------------------------
(* execute over a captured write transaction.                              *)
(*                                                                         *)
(* The trace starts from the idle bus: a start condition, the seven        *)
(* address bits, the R/W bit, the acknowledge bit, eight data bits, the    *)
(* second acknowledge bit, and a stop condition.  Every bit is a sample    *)
(* with the clock low followed by a sample with the clock high carrying    *)
(* the bit; low says what the data line shows while the clock is low:      *)
(* 0, 1, or (2) already the coming bit.  The stop condition is data        *)
(* rising under the high clock, so the clock first rises with data low.    *)
LowLevels == {0, 1, 2}

WriteTrace(addr, rw, ack, byte, nack, low) ==
    LET bits == addr \o <<rw, ack>> \o byte \o <<nack>>
        n    == Len(bits)
        L(b) == IF low = 2 THEN b ELSE low
        level(i) ==
            IF i = 1 THEN <<1, 0>>
            ELSE IF i <= 2 * n + 1
                 THEN IF i % 2 = 0 THEN <<0, L(bits[i \div 2])>>
                                   ELSE <<1, bits[i \div 2]>>
            ELSE IF i = 2 * n + 2 THEN <<0, L(0)>>
            ELSE IF i = 2 * n + 3 THEN <<1, 0>>
            ELSE <<1, 1>>
    IN  [i \in 1 .. 2 * n + 4 |->
            [scl |-> level(i)[1], sda |-> level(i)[2], time |-> i]]

(* The transactions SpecRT runs: address 0x50 or 0x2F, data 0xFF or 0x5A *)
RTAddresses == { <<1, 0, 1, 0, 0, 0, 0>>, <<0, 1, 0, 1, 1, 1, 1>> }
RTBytes == { <<1, 1, 1, 1, 1, 1, 1, 1>>, <<0, 1, 0, 1, 1, 0, 1, 0>> }

RTTraces ==
    { WriteTrace(a, rw, ack, b, nack, low) :
        a \in RTAddresses, rw \in Bit, ack \in Bit, b \in RTBytes,
        nack \in Bit, low \in LowLevels }

InitRT ==
    /\ \E p \in UninitBytes, b \in UninitBytes : d = newDecoder(p, b)
    /\ evt = <<>>
    /\ dat = <<>>
    /\ diag = <<>>
    /\ smp = [called |-> FALSE, scl |-> 1, sda |-> 1, time |-> 0]
    /\ prev = [state |-> IDLE, scl |-> 1, sda |-> 1]
    /\ addrBits = Off
    /\ dataBits = Off
    /\ ds \in [rows : RTTraces, position : {0}]
    /\ eventDs = <<>>
    /\ dataDs = <<>>
    /\ ex = Running
    /\ hist = NoHist

(* ExecuteLoop handing handleState the time of the sample before *)
ExecuteLoopLastTime ==
    /\ ex.pc = "loop"
    /\ ds.position < Len(ds.rows)
    /\ LET row == ds.rows[ds.position + 1]
           lastTime == IF ds.position = 0 THEN 0 ELSE ds.rows[ds.position].time
       IN  Call(row.scl, row.sda, lastTime)
    /\ ds' = [ds EXCEPT !.position = ds.position + 1]
    /\ eventDs' = eventDs \o evt'
    /\ dataDs' = dataDs \o dat'
    /\ UNCHANGED ex

(* while( ds.next(time) && sclLE.next(sclValue) && sdaLE.next(sdaValue) )  *)
(*     handleState(d, sclValue, sdaValue, time, dataDs, eventDs, ...);     *)
ExecuteLoop ==
    /\ ex.pc = "loop"
    /\ ds.position < Len(ds.rows)
    /\ LET row == ds.rows[ds.position + 1]
       IN  Call(row.scl, row.sda, row.time)
    /\ ds' = [ds EXCEPT !.position = ds.position + 1]
    /\ eventDs' = eventDs \o evt'
    /\ dataDs' = dataDs \o dat'
    /\ UNCHANGED ex

NextRT == ExecuteLoop

SpecRT == InitRT /\ [][NextRT]_vars

-----------------------------------------------------------------------------
(* execute from its first statement.                                       *)

(* d before newDecoder has run: no decoder exists *)
NoDecoder ==
    [state |-> "unallocated", scl |-> 0, sda |-> 0, pos |-> 0, byteBuffer |-> 0]

(* A trace with coarser timestamps: consecutive rows share a time *)
Coarse(t) == [i \in DOMAIN t |-> [t[i] EXCEPT !.time = i \div 2]]

(* Every trace of at most MaxRows samples, timestamps as in Coarse *)
MaxRows == 3

FreeTraces ==
    UNION { { [i \in 1 .. n |-> [scl |-> c[i], sda |-> a[i], time |-> i \div 2]] :
                c \in [1 .. n -> Bit], a \in [1 .. n -> Bit] } : n \in 0 .. MaxRows }

ExecTraces == RTTraces \cup { Coarse(t) : t \in RTTraces } \cup FreeTraces

InitExec ==
    /\ d = NoDecoder
    /\ evt = <<>>
    /\ dat = <<>>
    /\ diag = <<>>
    /\ smp = [called |-> FALSE, scl |-> 1, sda |-> 1, time |-> 0]
    /\ prev = [state |-> IDLE, scl |-> 1, sda |-> 1]
    /\ addrBits = Off
    /\ dataBits = Off
    /\ ds \in [rows : ExecTraces, position : {0}]
    /\ eventDs = <<>>
    /\ dataDs = <<>>
    /\ ex = [pc |-> "newDecoder", ptr |-> "unset", nullWrite |-> FALSE,
             printed |-> <<>>]
    /\ hist = NoHist

(* d = newDecoder(); malloc returned a block. *)
NewDecoderBlock ==
    /\ ex.pc = "newDecoder"
    /\ \E p \in UninitBytes, b \in UninitBytes : d' = newDecoder(p, b)
    /\ ex' = [ex EXCEPT !.pc = "loop", !.ptr = "block"]
    /\ UNCHANGED <<evt, dat, diag, smp, prev, addrBits, dataBits, ds, eventDs,
                   dataDs, hist>>

(* d = newDecoder(); malloc returned 0.  newDecoder does not test the      *)
(* pointer: d->state = IDLE, d->scl = 1 and d->sda = 1 store through it.   *)
(* The store either traps, ending the process, or goes through (page 0     *)
(* is writable); then newDecoder returns 0 and execute prints              *)
(* "Unable to allocate decoder memory." and returns.                       *)
NewDecoderNull ==
    /\ ex.pc = "newDecoder"
    /\ \E outcome \in {"trap", "stored"} :
          ex' = IF outcome = "trap"
                THEN [ex EXCEPT !.pc = "crashed", !.ptr = "null",
                                !.nullWrite = TRUE]
                ELSE [ex EXCEPT !.pc = "returned", !.ptr = "null",
                                !.nullWrite = TRUE,
                                !.printed = <<"Unable to allocate decoder memory.">>]
    /\ UNCHANGED <<d, evt, dat, diag, smp, prev, addrBits, dataBits, ds, eventDs,
                   dataDs, hist>>

(* The trace is exhausted: the rows not written are padded and filtered,   *)
(* which leaves the rows written as they are, the decoder is destroyed     *)
(* and execute returns.                                                    *)
ExecuteFinish ==
    /\ ex.pc = "loop"
    /\ ds.position = Len(ds.rows)
    /\ ex' = [ex EXCEPT !.pc = "returned"]
    /\ UNCHANGED <<d, evt, dat, diag, smp, prev, addrBits, dataBits, ds, eventDs,
                   dataDs, hist>>

NextExec ==
    \/ NewDecoderBlock
    \/ NewDecoderNull
    \/ ExecuteLoop
    \/ ExecuteFinish

SpecExec == InitExec /\ [][NextExec]_vars

-----------------------------------------------------------------------------
(* Vocabulary of the properties *)

(* The levels the decoder holds, i.e. those the next call starts from *)
Held == [scl |-> d.scl, sda |-> d.sda]

(* The labels of a sequence of event rows, and the values of data rows *)
Labels(rows) == [i \in DOMAIN rows |-> rows[i][2]]
Values(rows) == [i \in DOMAIN rows |-> rows[i][2]]

(* The integer a bit sequence spells, most significant bit first *)
RECURSIVE MSBFirst(_)
MSBFirst(b) ==
    IF b = <<>> THEN 0
    ELSE 2 * MSBFirst(SubSeq(b, 1, Len(b) - 1)) + b[Len(b)]

(* s is a prefix of t *)
IsPrefix(s, t) == Len(s) <= Len(t) /\ s = SubSeq(t, 1, Len(s))

(* The traces of the round-trip scenario: address 1010000, write,         *)
(* acknowledged, data 11111111, not acknowledged, stop.                   *)
RoundTripTraces ==
    { WriteTrace(<<1, 0, 1, 0, 0, 0, 0>>, 0, 0,
                 <<1, 1, 1, 1, 1, 1, 1, 1>>, 1, low) : low \in LowLevels }

RoundTripEvents ==
    <<"START", "ADDRESS", "WRITE", "ACK", "DATA", "NACK", "STOP">>

-----------------------------------------------------------------------------
(* C1: Round trip.  Run from a fresh decoder over the write transaction    *)
(* START, address bits 1010000, R/W 0, ack 0, data bits 11111111, ack 1,   *)
(* STOP, the events written are exactly START, ADDRESS, WRITE, ACK, DATA,  *)
(* NACK, STOP, the data set receives exactly 0x50 then 0xFF, at the times  *)
(* of the ADDRESS and DATA events, and the decoder ends in IDLE.  While    *)
(* the trace is being read the events written are a prefix of that list.   *)
C1_RoundTrip ==
    ds.rows \in RoundTripTraces =>
        /\ IsPrefix(Labels(eventDs), RoundTripEvents)
        /\ ds.position = Len(ds.rows) =>
            /\ Labels(eventDs) = RoundTripEvents
            /\ Values(dataDs) = <<80, 255>>
            /\ dataDs[1][1] = eventDs[2][1]
            /\ dataDs[2][1] = eventDs[5][1]
            /\ d.state = IDLE

C1_Witness ==
    /\ ds.rows \in RoundTripTraces
    /\ ds.position = Len(ds.rows)
    /\ Len(eventDs) = 7
    /\ Len(dataDs) = 2

(* C2: Address bit order.  After a start condition, in whatever state it   *)
(* came, the next seven sampled bits b6..b0 (no start or stop between)     *)
(* make the seventh sample write an ADDRESS event and the byte             *)
(* b6*64+...+b0; the first six write no byte.                              *)
C2_AddressBitOrder ==
    [][ (addrBits.on /\ IsBitEdge(Held, smp')) =>
            IF Len(addrBits.bits) = 6
            THEN /\ evt' = << <<smp'.time, "ADDRESS">> >>
                 /\ dat' = << <<smp'.time,
                                MSBFirst(Append(addrBits.bits, smp'.sda))>> >>
            ELSE dat' = <<>> ]_vars

C2_Witness ==
    /\ smp.called
    /\ IsBitEdge(prev, smp)
    /\ prev.state = READ_ADDR
    /\ evt = << <<smp.time, "ADDRESS">> >>
    /\ dat = << <<smp.time, 80>> >>

(* C3: Data bit order.  Once READ_DATA is entered from READ_ACK, the next  *)
(* eight sampled bits b7..b0 (no start or stop between) make the eighth    *)
(* sample write the byte b7*128+...+b0 and a DATA event and move to        *)
(* READ_ACK; the first seven write nothing.                                *)
C3_DataBitOrder ==
    [][ (dataBits.on /\ IsBitEdge(Held, smp')) =>
            IF Len(dataBits.bits) = 7
            THEN /\ dat' = << <<smp'.time,
                                MSBFirst(Append(dataBits.bits, smp'.sda))>> >>
                 /\ evt' = << <<smp'.time, "DATA">> >>
                 /\ d'.state = READ_ACK
            ELSE /\ dat' = <<>>
                 /\ evt' = <<>> ]_vars

C3_Witness ==
    /\ smp.called
    /\ IsBitEdge(prev, smp)
    /\ prev.state = READ_DATA
    /\ evt = << <<smp.time, "DATA">> >>
    /\ dat = << <<smp.time, 90>> >>
    /\ d.state = READ_ACK

(* C4: Restart tagging.  A start condition seen while the state is not     *)
(* IDLE writes START(odd), one seen in IDLE writes START; either way the   *)
(* state becomes READ_ADDR with pos = 0 and byteBuffer = 0.                *)
C4_RestartTagging ==
    [][ IsStart(Held, smp') =>
            /\ evt' = << <<smp'.time,
                           IF d.state = IDLE THEN "START" ELSE "START(odd)">> >>
            /\ d'.state = READ_ADDR
            /\ d'.pos = 0
            /\ d'.byteBuffer = 0 ]_vars

C4_Witness ==
    /\ smp.called
    /\ IsStart(prev, smp)
    /\ prev.state = READ_DATA
    /\ evt = << <<smp.time, "START(odd)">> >>
    /\ d.state = READ_ADDR

(* C5: A stop condition is accepted in every state, IDLE included: it      *)
(* writes exactly one STOP event and no byte, and the state becomes IDLE.  *)
C5_StopAnywhere ==
    [][ IsStop(Held, smp') =>
            /\ evt' = << <<smp'.time, "STOP">> >>
            /\ dat' = <<>>
            /\ d'.state = IDLE ]_vars

C5_Witness ==
    /\ smp.called
    /\ IsStop(prev, smp)
    /\ prev.state = IDLE
    /\ evt = << <<smp.time, "STOP">> >>

(* C6: Clock-low masking.  A sample whose clock level is 0 writes no       *)
(* event, no byte and no diagnostic, and leaves state, pos and byteBuffer  *)
(* as they were.                                                           *)
C6_ClockLowMasking ==
    [][ smp'.scl = 0 =>
            /\ evt' = <<>>
            /\ dat' = <<>>
            /\ diag' = <<>>
            /\ d'.state = d.state
            /\ d'.pos = d.pos
            /\ d'.byteBuffer = d.byteBuffer ]_vars

C6_Witness ==
    /\ smp.called
    /\ smp.scl = 0
    /\ prev.scl = 0
    /\ prev.sda # smp.sda
    /\ d.state = READ_DATA
    /\ d.pos = 3
    /\ d.byteBuffer # 0

(* C7: No-op samples.  A sample whose levels equal the levels held leaves  *)
(* the whole decoder as it was and writes no event, byte or diagnostic.    *)
C7_NoOpSample ==
    [][ IsNoChange(Held, smp') =>
            /\ d' = d
            /\ evt' = <<>>
            /\ dat' = <<>>
            /\ diag' = <<>> ]_vars

C7_Witness ==
    /\ smp.called
    /\ IsNoChange(prev, smp)
    /\ smp.scl = 1
    /\ d.state = READ_ADDR
    /\ d.pos = 2

(* C8: Unhandled combination.  A sampled bit arriving in a state without   *)
(* a handler (IDLE) prints exactly one diagnostic (the message with its    *)
(* line of values), writes no event and no byte, and leaves state, pos     *)
(* and byteBuffer as they were.                                            *)
C8_Unhandled ==
    [][ (IsBitEdge(Held, smp')
         /\ d.state \notin {READ_ADDR, READ_RW, READ_ACK, READ_DATA}) =>
            /\ Len(diag') = 2
            /\ diag'[1] = "There's a state here we haven't implemented yet"
            /\ diag'[2].state = d.state
            /\ evt' = <<>>
            /\ dat' = <<>>
            /\ d'.state = d.state
            /\ d'.pos = d.pos
            /\ d'.byteBuffer = d.byteBuffer ]_vars

C8_Witness ==
    /\ smp.called
    /\ IsBitEdge(prev, smp)
    /\ prev.state = IDLE
    /\ d.state = IDLE
    /\ diag # <<>>

(* C9: In every state reachable from newDecoder, the freshly created       *)
(* decoder included, pos is at most 8.                                     *)
C9_BitPositionAtMost8 == d.pos <= 8

(* C10: Field-boundary reset.  Right after a step that enters READ_ADDR    *)
(* (a start condition), READ_ACK from READ_RW, or READ_DATA from READ_ACK, *)
(* pos = 0 and byteBuffer = 0; and pos = 0 and byteBuffer = 0 in every     *)
(* state whose phase is READ_RW or READ_ACK.                               *)
C10_FieldBoundaryReset ==
    [][ /\ ( \/ IsStart(Held, smp')
             \/ d.state = READ_RW /\ d'.state = READ_ACK
             \/ d.state = READ_ACK /\ d'.state = READ_DATA ) =>
                (d'.pos = 0 /\ d'.byteBuffer = 0)
        /\ d'.state \in {READ_RW, READ_ACK} =>
                (d'.pos = 0 /\ d'.byteBuffer = 0) ]_vars

C10_Witness ==
    /\ smp.called
    /\ prev.state = READ_ADDR
    /\ d.state = READ_RW
    /\ dat = << <<smp.time, 127>> >>
    /\ d.pos = 0
    /\ d.byteBuffer = 0

(* C11: Allocation failure.  When the allocation in newDecoder returns     *)
(* null, the session is aborted cleanly: the failure is reported, nothing  *)
(* is stored through the null pointer, handleState gets no sample and no   *)
(* event or byte is written.                                               *)
C11_CleanAbortOnAllocFailure ==
    ex.ptr = "null" =>
        /\ ex.pc = "returned"
        /\ ex.printed = <<"Unable to allocate decoder memory.">>
        /\ ~ex.nullWrite
        /\ ~smp.called
        /\ eventDs = <<>>
        /\ dataDs = <<>>

(* C12: Time-ordered output.  Every sample of the trace is handed to       *)
(* handleState once, in trace order; every row a call writes carries the   *)
(* time of the sample handed to that call; so, the trace times being       *)
(* non-decreasing, the rows of each data set are in non-decreasing time    *)
(* order.                                                                  *)
TimeSorted(rows) ==
    \A i \in DOMAIN rows, j \in DOMAIN rows : i <= j => rows[i][1] <= rows[j][1]

Added(old, new) == SubSeq(new, Len(old) + 1, Len(new))

C12_TimeOrderedOutput ==
    [][ /\ ds'.rows = ds.rows
        /\ \/ /\ ds'.position = ds.position
              /\ smp' = smp
              /\ eventDs' = eventDs
              /\ dataDs' = dataDs
           \/ /\ ds'.position = ds.position + 1
              /\ LET row == ds.rows[ds'.position]
                 IN  /\ smp' = [called |-> TRUE, scl |-> row.scl,
                                sda |-> row.sda, time |-> row.time]
                     /\ IsPrefix(eventDs, eventDs')
                     /\ IsPrefix(dataDs, dataDs')
                     /\ \A i \in DOMAIN evt' : evt'[i][1] = row.time
                     /\ \A i \in DOMAIN dat' : dat'[i][1] = row.time
                     /\ Added(eventDs, eventDs') = evt'
                     /\ Added(dataDs, dataDs') = dat'
        /\ TimeSorted(eventDs')
        /\ TimeSorted(dataDs') ]_vars

C12_Witness ==
    /\ ex.pc = "returned"
    /\ ds.position = Len(ds.rows)
    /\ Len(eventDs) = 7
    /\ Len(dataDs) = 2
    /\ ds.rows[2].time = ds.rows[3].time
    /\ dataDs[1][1] = eventDs[2][1]
    /\ dataDs[2][1] = eventDs[5][1]
    /\ dataDs[1][1] < dataDs[2][1]

(* C13: Diagnostic content.  The diagnostic printed for an unhandled       *)
(* sampled bit reports the decoder state, the levels held before the       *)
(* sample and the levels of the sample itself.                             *)
C13_DiagnosticContent ==
    diag # <<>> =>
        /\ diag[2].state = prev.state
        /\ diag[2].lastSCL = prev.scl
        /\ diag[2].lastSDA = prev.sda
        /\ diag[2].scl = smp.scl
        /\ diag[2].sda = smp.sda

(* C14: Classifier.  For all levels held and all sample levels the tests   *)
(* NoChange, ClockFalling, ClockLowDataChange, StartCondition,             *)
(* StopCondition, taken in that order with BitSampleEdge for what is       *)
(* left, assign one category; BitSampleEdge is assigned exactly on a       *)
(* rising clock (so only with clock = 1), every data change under a clock  *)
(* that stays high being a start or a stop condition.                      *)
Category(p, s) ==
    LET test == << IsNoChange(p, s),
                   p.scl = 1 /\ s.scl = 0,
                   s.scl = 0,
                   IsStart(p, s),
                   IsStop(p, s),
                   TRUE >>
        name == << "NoChange", "ClockFalling", "ClockLowDataChange",
                   "StartCondition", "StopCondition", "BitSampleEdge" >>
        first == CHOOSE k \in 1 .. 6 :
                    test[k] /\ \A j \in 1 .. k - 1 : ~test[j]
    IN  name[first]

C14_Classifier ==
    smp.called =>
        LET c == Classify(prev, smp.scl, smp.sda)
        IN  /\ c = Category(prev, smp)
            /\ c = "BitSampleEdge" <=> (prev.scl = 0 /\ smp.scl = 1)
            /\ c = "BitSampleEdge" => smp.scl = 1
            /\ (prev.scl = 1 /\ smp.scl = 1 /\ prev.sda # smp.sda) =>
                    c \in {"StartCondition", "StopCondition"}
            /\ c \in {"NoChange", "ClockFalling", "ClockLowDataChange"} =>
                    (evt = <<>> /\ dat = <<>> /\ diag = <<>>)
            /\ c = "StartCondition" <=>
                    (evt # <<>> /\ evt[1][2] \in {"START", "START(odd)"})
            /\ c = "StopCondition" <=> (evt # <<>> /\ evt[1][2] = "STOP")

C14_Witness ==
    /\ smp.called
    /\ Classify(prev, smp.scl, smp.sda) = "BitSampleEdge"
    /\ prev.scl = 0
    /\ prev.sda # smp.sda
    /\ prev.state = READ_DATA
    /\ d.pos = 5

(* C15: Last-level tracking.  After any sample, whatever the state and     *)
(* the branch taken, scl and sda of the decoder are the levels of that     *)
(* sample; the fresh decoder holds scl = 1, sda = 1, state = IDLE.         *)
C15_LastLevels ==
    IF smp.called
    THEN d.scl = smp.scl /\ d.sda = smp.sda
    ELSE d.scl = 1 /\ d.sda = 1 /\ d.state = IDLE

C15_Witness ==
    /\ smp.called
    /\ diag # <<>>
    /\ prev.sda # smp.sda
    /\ d.scl = 1
    /\ d.sda = smp.sda

(* C16: Single-bit fields.  A sampled bit in READ_RW writes exactly one    *)
(* event, WRITE for data 0 and READ for data 1, no byte, and moves to      *)
(* READ_ACK; a sampled bit in READ_ACK writes exactly one event, ACK for   *)
(* data 0 and NACK for data 1, no byte, and moves to READ_DATA.            *)
C16_SingleBitFields ==
    [][ IsBitEdge(Held, smp') =>
            /\ d.state = READ_RW =>
                /\ evt' = << <<smp'.time,
                               IF smp'.sda = 0 THEN "WRITE" ELSE "READ">> >>
                /\ dat' = <<>>
                /\ d'.state = READ_ACK
            /\ d.state = READ_ACK =>
                /\ evt' = << <<smp'.time,
                               IF smp'.sda = 0 THEN "ACK" ELSE "NACK">> >>
                /\ dat' = <<>>
                /\ d'.state = READ_DATA ]_vars

C16_Witness ==
    /\ smp.called
    /\ IsBitEdge(prev, smp)
    /\ prev.state = READ_ACK
    /\ hist.lastEvt = "NACK"
    /\ smp.sda = 1
    /\ d.state = READ_DATA

(* C17: Output pairing.  A sample writes at most one event and at most     *)
(* one byte; a byte is written only together with an ADDRESS or DATA       *)
(* event of the same time, and every ADDRESS or DATA event comes with      *)
(* exactly one byte; so the bytes written are as many as the ADDRESS and   *)
(* DATA events, and neither data set holds more rows than samples read.    *)
WithByte == {"ADDRESS", "DATA"}

C17_OutputPairing ==
    /\ Len(evt) <= 1
    /\ Len(dat) <= 1
    /\ dat # <<>> =>
        (evt # <<>> /\ evt[1][2] \in WithByte /\ evt[1][1] = dat[1][1])
    /\ (evt # <<>> /\ evt[1][2] \in WithByte) => Len(dat) = 1
    /\ Len(dataDs) = Cardinality({i \in DOMAIN eventDs : eventDs[i][2] \in WithByte})
    /\ Len(eventDs) <= ds.position
    /\ Len(dataDs) <= ds.position

C17_Witness ==
    /\ ex.pc = "loop"
    /\ evt # <<>>
    /\ evt[1][2] = "DATA"
    /\ dat = << <<evt[1][1], 90>> >>
    /\ Len(dataDs) = 2
    /\ Len(eventDs) = 5

(* C18: Bounded bit arithmetic.  Whenever a bit is OR-ed into byteBuffer   *)
(* the shift count is in 0..6 in READ_ADDR (pos in 0..6 before the step)   *)
(* and in 0..7 in READ_DATA (pos in 0..7); the OR stays within 0..255, so  *)
(* nothing is truncated; a byte written with ADDRESS is in 0..127 and one  *)
(* written with DATA in 0..255.                                            *)
C18_BoundedBitArithmetic ==
    [][ /\ (IsBitEdge(Held, smp') /\ d.state \in {READ_ADDR, READ_DATA}) =>
            LET top == IF d.state = READ_ADDR THEN 6 ELSE 7
            IN  /\ d.pos \in 0 .. top
                /\ top - d.pos \in 0 .. top
                /\ LET wide == BitOr(d.byteBuffer, smp'.sda * Pow2(top - d.pos))
                   IN  /\ wide \in 0 .. 255
                       /\ IF dat' = <<>> THEN d'.byteBuffer = wide
                                         ELSE dat'[1][2] = wide
        /\ d'.byteBuffer \in 0 .. 255
        /\ \A i \in DOMAIN dat' :
              IF evt'[i][2] = "ADDRESS" THEN dat'[i][2] \in 0 .. 127
                                        ELSE dat'[i][2] \in 0 .. 255 ]_vars

C18_Witness ==
    /\ smp.called
    /\ IsBitEdge(prev, smp)
    /\ prev.state = READ_DATA
    /\ d.state = READ_DATA
    /\ d.pos = 7
    /\ d.byteBuffer = 254

(* C19: Event grammar.  The first event other than STOP is plain START;    *)
(* ADDRESS comes right after START or START(odd); WRITE and READ right     *)
(* after ADDRESS; ACK and NACK right after WRITE, READ or DATA; DATA       *)
(* right after ACK or NACK; and a start is written as START(odd) exactly   *)
(* when the latest of START, START(odd), STOP is a START or START(odd).    *)
Follows(before, l) ==
    /\ l = "ADDRESS" => before \in {"START", "START(odd)"}
    /\ l \in {"WRITE", "READ"} => before = "ADDRESS"
    /\ l \in {"ACK", "NACK"} => before \in {"WRITE", "READ", "DATA"}
    /\ l = "DATA" => before \in {"ACK", "NACK"}

C19_EventGrammar ==
    [][ /\ \A i \in DOMAIN evt' :
            LET l == evt'[i][2]
                before == IF i = 1 THEN hist.lastEvt ELSE evt'[i - 1][2]
            IN  /\ Follows(before, l)
                /\ l \in {"START", "START(odd)"} =>
                      (l = "START(odd)" <=> hist.lastSS \in {"START", "START(odd)"})
        /\ hist'.first \in {"", "START"} ]_vars

C19_Witness ==
    /\ evt # <<>>
    /\ evt[1][2] = "START(odd)"
    /\ prev.state = READ_ACK
    /\ hist.first = "START"
    /\ hist.lastSS = "START(odd)"

(* C20: State domain.  The state is always one of IDLE, READ_ADDR,         *)
(* READ_RW, READ_ACK, READ_DATA (INVALID is never assigned), it is IDLE    *)
(* at the start, and none is terminal: two samples always exist that       *)
(* leave it.  The unhandled diagnostic is printed exactly when a sampled   *)
(* bit arrives in IDLE.                                                    *)
Samples == Bit \X Bit

C20_StateDomain ==
    /\ d.state \in {IDLE, READ_ADDR, READ_RW, READ_ACK, READ_DATA}
    /\ ~smp.called => d.state = IDLE
    /\ \E s1 \in Samples, s2 \in Samples :
          LET d1 == handleState(d, s1[1], s1[2], 0, 0).d
              d2 == handleState(d1, s2[1], s2[2], 0, 0).d
          IN  d2.state # d.state
    /\ smp.called =>
          (diag # <<>> <=> (IsBitEdge(prev, smp) /\ prev.state = IDLE))

C20_Witness ==
    /\ smp.called
    /\ diag # <<>>
    /\ d.state = IDLE
    /\ hist.first = "START"
    /\ hist.lastEvt = "STOP"

====
